---- MODULE Spec2Model ----
(***************************************************************************)
(* Model of src/core/gpu/opencl.rs: the OpenCL compute dispatch layer.     *)
(*                                                                         *)
(*   Spec          the process-wide CONTEXT singleton and the operations   *)
(*                 on it: list_devices, get_info, set_device,              *)
(*                 initialize_context and OclWrapper::new.                 *)
(*   SpecDispatch  one OclWrapper after construction and its per-frame     *)
(*                 operation undistort_image.                              *)
(*   SpecKernel    the composition of the kernel source in new().          *)
(*   SpecThreadsFair   callers on several threads, the operations on       *)
(*                 CONTEXT cut at their lock acquisitions, under a fair    *)
(*                 scheduler; SpecConstructors: the threads only call new. *)
(***************************************************************************)
EXTENDS Integers, Sequences, FiniteSets, TLC

VARIABLES
    platforms,   \* what Platform::list() / Device::list() of the driver report
    CONTEXT,     \* static CONTEXT: RwLock<Option<CtxWrapper>>
    self,        \* the OclWrapper a caller dispatches on (device buffers, images)
    description, \* the BufferDescription that caller built it for
    textures,    \* shared textures acquired from the graphics API and not handed back
    last,        \* the last finished call: operation, arguments, result, device calls
    callers,     \* per thread: the call it is in, where in it, its locals and result
    lock         \* the RwLock around CONTEXT: the writer (0: none), the readers and
                 \* the threads that wait for it, in the order they asked

vars == <<platforms, CONTEXT, self, description, textures, last, callers, lock>>

(***************************************************************************)
(* Strings.  str::contains and str::to_ascii_lowercase, on TLA+ strings.   *)
(***************************************************************************)
Contains(s, sub) ==
    \E i \in 1..(Len(s) - Len(sub) + 1) : SubSeq(s, i, i + Len(sub) - 1) = sub

LowerChar(c) ==
    CASE c = "A" -> "a" [] c = "B" -> "b" [] c = "C" -> "c" [] c = "D" -> "d"
      [] c = "E" -> "e" [] c = "F" -> "f" [] c = "G" -> "g" [] c = "H" -> "h"
      [] c = "I" -> "i" [] c = "J" -> "j" [] c = "K" -> "k" [] c = "L" -> "l"
      [] c = "M" -> "m" [] c = "N" -> "n" [] c = "O" -> "o" [] c = "P" -> "p"
      [] c = "Q" -> "q" [] c = "R" -> "r" [] c = "S" -> "s" [] c = "T" -> "t"
      [] c = "U" -> "u" [] c = "V" -> "v" [] c = "W" -> "w" [] c = "X" -> "x"
      [] c = "Y" -> "y" [] c = "Z" -> "z" [] OTHER -> c

RECURSIVE to_ascii_lowercase(_)
to_ascii_lowercase(s) ==
    IF Len(s) = 0 THEN ""
    ELSE LowerChar(SubSeq(s, 1, 1)) \o to_ascii_lowercase(SubSeq(s, 2, Len(s)))

(***************************************************************************)
(* Program constants.                                                      *)
(***************************************************************************)
EXCLUSIONS == <<"Microsoft Basic Render Driver">>

preference ==
    <<"nvidia", "radeon", "geforce", "firepro", "accelerated parallel processing", "graphics">>

\* ocl::BufferCmdError::MapUnavailable: the device-unavailable error
MapUnavailable == "MapUnavailable"
\* ocl::BufferCmdError::AlreadyMapped: the configuration error
AlreadyMapped == "AlreadyMapped"
\* any error a failed device-API call returns through `?`
ApiError == "ApiError"

Ok(v) == [ok |-> TRUE, value |-> v]
Err(e) == [ok |-> FALSE, error |-> e]

\* Option<CtxWrapper>
\* the RwLock with no guard alive
Unlocked == [writer |-> 0, readers |-> {}, queue |-> <<>>]

NoContext == [tag |-> "None"]
SomeContext(device, context, platform, checksum) ==
    [tag |-> "Some", device |-> device, context |-> context,
     platform |-> platform, surface_checksum |-> checksum]

(***************************************************************************)
(* The driver: platforms and their devices.  A query that returns Err in   *)
(* the code (name(), vendor(), version(), extensions(), info(Type),        *)
(* Device::list) is a flag of the platform or device.                      *)
(***************************************************************************)
Dev(name, typ, nameOk, vendorOk, versionOk, typeOk) ==
    [name |-> name, typ |-> typ, nameOk |-> nameOk, vendorOk |-> vendorOk,
     versionOk |-> versionOk, typeOk |-> typeOk]

Plat(name, nameOk, extOk, listOk, devs) ==
    [name |-> name, nameOk |-> nameOk, extOk |-> extOk, listOk |-> listOk, devs |-> devs]

GeForce  == Dev("NVIDIA GeForce RTX", "GPU", TRUE, TRUE, TRUE, TRUE)
Radeon   == Dev("Radeon RX", "GPU", TRUE, TRUE, TRUE, TRUE)
IntelUHD == Dev("Intel(R) UHD Graphics", "GPU", TRUE, TRUE, TRUE, TRUE)
IntelCpu == Dev("Intel(R) Core(TM)", "CPU", TRUE, TRUE, TRUE, TRUE)
Mali     == Dev("Mali-G78", "GPU", TRUE, TRUE, TRUE, TRUE)
Fpga     == Dev("Vision DSP", "ACCELERATOR", TRUE, TRUE, TRUE, TRUE)
BasicRender == Dev("Microsoft Basic Render Driver", "GPU", TRUE, TRUE, TRUE, TRUE)
\* devices of a flaky driver: one query each returns Err
NoVersion == Dev("Adreno 660", "GPU", TRUE, TRUE, FALSE, TRUE)
NoName    == Dev("Tegra X1", "GPU", FALSE, TRUE, TRUE, TRUE)
NoVendor  == Dev("PowerVR GX", "GPU", TRUE, FALSE, TRUE, TRUE)
NoType    == Dev("VideoCore VI", "GPU", TRUE, TRUE, TRUE, FALSE)

AmdPlatform == Plat("AMD Accelerated Parallel Processing", TRUE, TRUE, TRUE, <<Radeon>>)

PlatformCatalogue ==
    { Plat("Intel(R) OpenCL", TRUE, TRUE, TRUE, <<IntelCpu, IntelUHD, NoVersion>>),
      AmdPlatform,
      Plat("Portable CL", TRUE, TRUE, TRUE, <<Fpga, Mali>>),
      Plat("OpenCLOn12", TRUE, TRUE, TRUE, <<BasicRender, NoType>>),
      Plat("Microsoft Basic Render Driver Layer", TRUE, FALSE, TRUE, <<Mali>>),
      Plat("Clover", FALSE, TRUE, TRUE, <<NoVendor, NoName>>),
      Plat("Broken ICD", TRUE, TRUE, FALSE, <<GeForce>>) }

\* the platform lists a machine may have: up to MaxPlatforms distinct platforms
MaxPlatforms == 2

RECURSIVE SeqsOf(_, _)
SeqsOf(S, n) ==
    IF n = 0 THEN {<<>>}
    ELSE LET shorter == SeqsOf(S, n - 1)
         IN  shorter \cup {Append(q, x) : q \in {r \in shorter : Len(r) = n - 1}, x \in S}

Environments ==
    {q \in SeqsOf(PlatformCatalogue, MaxPlatforms) : \A i, j \in 1..Len(q) : i # j => q[i] # q[j]}

\* a device handle: <<index of the platform, index of the device in it>>
DeviceType == {"GPU", "ACCELERATOR"}

\* Device::list(p, Some(DeviceType::new().gpu().accelerator())) on the platform
\* list ps: Err, or the platform's devices of these types, in the driver's order
RECURSIVE DeviceListFrom(_, _, _)
DeviceListFrom(ps, pi, di) ==
    IF di > Len(ps[pi].devs) THEN <<>>
    ELSE (IF ps[pi].devs[di].typ \in DeviceType THEN <<(<<pi, di>>)>> ELSE <<>>)
         \o DeviceListFrom(ps, pi, di + 1)

DeviceList(ps, pi) ==
    IF ps[pi].listOk THEN Ok(DeviceListFrom(ps, pi, 1)) ELSE Err(ApiError)

DeviceOf(ps, d) == ps[d[1]].devs[d[2]]

\* the driver's queries: Ok(value) or Err
PlatformName(ps, pi) == IF ps[pi].nameOk THEN Ok(ps[pi].name) ELSE Err(ApiError)
DeviceName(ps, d) == IF DeviceOf(ps, d).nameOk THEN Ok(DeviceOf(ps, d).name) ELSE Err(ApiError)
DeviceVendor(ps, d) == IF DeviceOf(ps, d).vendorOk THEN Ok("Vendor") ELSE Err(ApiError)
DeviceVersion(ps, d) == IF DeviceOf(ps, d).versionOk THEN Ok("OpenCL 3.0") ELSE Err(ApiError)
PlatformExtensions(ps, pi) == IF ps[pi].extOk THEN Ok("cl_khr_gl_sharing") ELSE Err(ApiError)
DeviceInfoType(ps, d) ==
    IF DeviceOf(ps, d).typeOk THEN Ok(DeviceOf(ps, d).typ) ELSE Err(ApiError)

\* Result<String>::unwrap_or_default()
unwrap_or_default(r) == IF r.ok THEN r.value ELSE ""

\* the devices of every platform whose Device::list is Ok, in enumeration order:
\* what `for p in Platform::list() { if let Ok(devs) = Device::list(..) { for d in devs`
\* visits
RECURSIVE EnumerateFrom(_, _)
EnumerateFrom(ps, pi) ==
    IF pi > Len(ps) THEN <<>>
    ELSE (IF DeviceList(ps, pi).ok THEN DeviceList(ps, pi).value ELSE <<>>)
         \o EnumerateFrom(ps, pi + 1)

Enumerate(ps) == EnumerateFrom(ps, 1)

(***************************************************************************)
(* Buffer descriptions.  get_checksum is defined beside BufferSource,      *)
(* outside this file: a deterministic function of the surface handles (a   *)
(* u32; the handles of the model keep it far below 2^32).                  *)
(***************************************************************************)
get_checksum(b) ==
    CASE b.kind = "Cpu" -> 0
      [] b.kind = "OpenCL" -> 1000 + 100 * b.queue + 10 * b.input + b.output
      [] b.kind = "OpenGL" -> 2000 + 100 * b.context + 10 * b.input + b.output
      [] b.kind = "DirectX" -> 3000 + 100 * b.device + 10 * b.input + b.output

\* ContextProperties built for a buffer description (None: no description)
get_properties(buffers) ==
    IF buffers.tag = "None" THEN "default"
    ELSE CASE buffers.value.buffers.kind = "OpenGL" -> "gl_sharing"
           [] buffers.value.buffers.kind = "DirectX" -> "d3d11_device"
           [] OTHER -> "default"

NoBuffers == [tag |-> "None"]
SomeBuffers(b) == [tag |-> "Some", value |-> b]

\* Context::builder().properties(props).platform(p).devices(d).build()
BuildContext(props, pi, d) == [platform |-> pi, device |-> d, properties |-> props]

(***************************************************************************)
(* list_devices                                                            *)
(***************************************************************************)
\* format!("{} {}: {}", p.name().ok()?, x.name().ok()?, x.version().ok()?) under
\* filter_map: no entry when one of the three queries is Err
ListEntry(ps, d) ==
    IF PlatformName(ps, d[1]).ok /\ DeviceName(ps, d).ok /\ DeviceVersion(ps, d).ok
    THEN <<[device |-> d,
            text |-> PlatformName(ps, d[1]).value \o " " \o DeviceName(ps, d).value
                     \o ": " \o DeviceVersion(ps, d).value]>>
    ELSE <<>>

RECURSIVE ListEntriesFrom(_, _, _)
ListEntriesFrom(ps, q, i) ==
    IF i > Len(q) THEN <<>> ELSE ListEntry(ps, q[i]) \o ListEntriesFrom(ps, q, i + 1)

Excluded(text) == \E e \in 1..Len(EXCLUSIONS) : Contains(text, EXCLUSIONS[e])

\* the entries list_devices returns on ps, each with the device it describes
ListedDevicesOf(ps) ==
    SelectSeq(ListEntriesFrom(ps, Enumerate(ps), 1), LAMBDA x : ~Excluded(x.text))

(***************************************************************************)
(* set_device                                                              *)
(***************************************************************************)
\* the devices set_device counts: `continue` on an excluded device name
SetDeviceSkips(ps, d) == Excluded(unwrap_or_default(DeviceName(ps, d)))

SetDeviceCandidatesOf(ps) == SelectSeq(Enumerate(ps), LAMBDA d : ~SetDeviceSkips(ps, d))

(***************************************************************************)
(* initialize_context: the device it selects                               *)
(***************************************************************************)
NoDevice == <<0, 0>>

\* format!("{} {}", p.name().unwrap_or_default(), d.name().unwrap_or_default())
\*     .to_ascii_lowercase().contains(pref)
MatchesPreference(ps, d, pref) ==
    Contains(to_ascii_lowercase(unwrap_or_default(PlatformName(ps, d[1])) \o " "
                                \o unwrap_or_default(DeviceName(ps, d))), pref)

\* the first element of q from position i on that matches pref, or NoDevice
RECURSIVE FirstMatching(_, _, _, _)
FirstMatching(ps, q, i, pref) ==
    IF i > Len(q) THEN NoDevice
    ELSE IF MatchesPreference(ps, q[i], pref) THEN q[i]
    ELSE FirstMatching(ps, q, i + 1, pref)

\* the loops of lines 127-140 nested the other way round: the first device that
\* matches any keyword
SelectPreferred_DeviceFirst(ps, k) ==
    LET q == Enumerate(ps)
        hit(i) == \E j \in k..Len(preference) : MatchesPreference(ps, q[i], preference[j])
    IN  IF \E i \in 1..Len(q) : hit(i)
        THEN q[CHOOSE i \in 1..Len(q) : hit(i) /\ \A i2 \in 1..(i - 1) : ~hit(i2)]
        ELSE NoDevice

\* 'outer: for pref in preference { for p { for d { if matches { break 'outer } } } }
RECURSIVE SelectPreferred(_, _)
SelectPreferred(ps, k) ==
    IF k > Len(preference) THEN NoDevice
    ELSE LET d == FirstMatching(ps, Enumerate(ps), 1, preference[k])
         IN  IF d # NoDevice THEN d ELSE SelectPreferred(ps, k + 1)

IsGpu(ps, d) == DeviceInfoType(ps, d).ok /\ DeviceInfoType(ps, d).value = "GPU"

\* 'outer2: the first device whose info(Type) is Ok(GPU), or NoDevice
RECURSIVE FirstGpu(_, _, _)
FirstGpu(ps, q, i) ==
    IF i > Len(q) THEN NoDevice
    ELSE IF IsGpu(ps, q[i]) THEN q[i]
    ELSE FirstGpu(ps, q, i + 1)

\* the device initialize_context settles on, or NoDevice
SelectDeviceOf(ps) ==
    LET d == SelectPreferred(ps, 1)
    IN  IF d # NoDevice THEN d ELSE FirstGpu(ps, Enumerate(ps), 1)

(***************************************************************************)
(* The enumerations above are functions of the platform list alone: they   *)
(* are tabulated once per platform list and looked up in the current one.  *)
(***************************************************************************)
Driver ==
    [ps \in Environments |->
        [enumerated |-> Enumerate(ps),
         listed |-> ListedDevicesOf(ps),
         candidates |-> SetDeviceCandidatesOf(ps),
         selected |-> SelectDeviceOf(ps)]] @@ <<>>

ListedDevices == Driver[platforms].listed
SetDeviceCandidates == Driver[platforms].candidates
SelectDevice == Driver[platforms].selected

\* where the closure of lines 59-67 can panic inside the driver bindings: in
\* Platform::list(), in Device::list() of a platform, in a query of a device
PanicPoints ==
    {"none", "Platform::list"}
    \cup (IF Len(platforms) > 0 THEN {"Device::list"} ELSE {})
    \cup (IF Len(Driver[platforms].enumerated) > 0 THEN {"Device::name"} ELSE {})

\* lines 59-67: the closure either unwinds with a panic (what it had pushed to
\* `ret` is dropped with it) or evaluates to the filtered entries
EnumerationClosure(panic) ==
    IF panic # "none"
    THEN [tag |-> "Panic", payload |-> panic]
    ELSE [tag |-> "Value",
          value |-> [i \in 1..Len(ListedDevices) |-> ListedDevices[i].text]]

\* the closure called bare: a panic goes on unwinding into the caller
catch_unwind_Through(r) == r

\* std::panic::catch_unwind (line 59): Err(payload) for a panic, Ok(value) otherwise
catch_unwind(r) ==
    IF r.tag = "Panic" THEN [tag |-> "Err", payload |-> r.payload]
    ELSE [tag |-> "Ok", value |-> r.value]

\* lines 58-81. returned: whether list_devices returns to its caller (FALSE: a
\* panic unwinds out of it); value: the Vec<String> returned
list_devices(panic) ==
    LET devices == catch_unwind(EnumerationClosure(panic))
    IN  CASE devices.tag = "Ok" -> [returned |-> TRUE, value |-> devices.value]
          [] devices.tag = "Err" -> [returned |-> TRUE, value |-> <<>>]
          [] OTHER -> [returned |-> FALSE, value |-> <<>>]

\* an error return of set_device that takes the active context down with it
SetDeviceFails_Clears(e) == [result |-> Err(e), context |-> NoContext]

\* lines 98, 104, 113: set_device returns an error; CONTEXT is not written
SetDeviceFails(e) == [result |-> Err(e), context |-> CONTEXT]

\* the result of set_device(index, buffers) and the CONTEXT it leaves.
\* logInfo: whether log::info! is enabled, so that its arguments are evaluated;
\* buildOk: whether Context::builder()...build() succeeds
set_device(index, buffers, logInfo, buildOk) ==
    IF index + 1 > Len(SetDeviceCandidates)
    THEN SetDeviceFails(MapUnavailable)
    ELSE LET d == SetDeviceCandidates[index + 1]
         IN  IF logInfo /\ ~(PlatformName(platforms, d[1]).ok /\ DeviceVendor(platforms, d).ok
                             /\ DeviceName(platforms, d).ok)
             THEN SetDeviceFails(ApiError)
             ELSE IF ~buildOk
             THEN SetDeviceFails(ApiError)
             ELSE [result |-> Ok(<<>>),
                   context |-> SomeContext(d,
                                   BuildContext(get_properties(SomeBuffers(buffers)), d[1], d),
                                   d[1], get_checksum(buffers.buffers))]

\* a slip in line 171: the context is tagged with the default checksum
InstalledChecksum_Default(buffers) == 0

\* line 171: buffers.map(|x| x.buffers.get_checksum()).unwrap_or_default()
InstalledChecksum(buffers) ==
    IF buffers.tag = "Some" THEN get_checksum(buffers.value.buffers) ELSE 0
\* initialize_context with line 171 moved up in front of the queries of lines
\* 168-169: the singleton is written before the last `?` can return
initialize_context_InstallsEarly(buffers, logInfo, buildOk) ==
    LET d == SelectDevice
        ps == platforms
        installed == SomeContext(d, BuildContext(get_properties(buffers), d[1], d), d[1],
                                 InstalledChecksum(buffers))
    IN  IF d = NoDevice
        THEN [result |-> Err(MapUnavailable), context |-> CONTEXT, selected |-> d]
        ELSE IF logInfo /\ ~(PlatformName(ps, d[1]).ok /\ PlatformExtensions(ps, d[1]).ok
                             /\ DeviceVendor(ps, d).ok /\ DeviceName(ps, d).ok)
        THEN [result |-> Err(ApiError), context |-> CONTEXT, selected |-> d]
        ELSE IF ~buildOk
        THEN [result |-> Err(ApiError), context |-> CONTEXT, selected |-> d]
        ELSE IF ~(DeviceVendor(ps, d).ok /\ DeviceName(ps, d).ok /\ PlatformName(ps, d[1]).ok)
        THEN [result |-> Err(ApiError), context |-> installed, selected |-> d]
        ELSE [result |-> Ok(<<"Vendor " \o DeviceName(ps, d).value,
                              "[OpenCL] " \o PlatformName(ps, d[1]).value \o " "
                                  \o DeviceName(ps, d).value>>),
              context |-> installed,
              selected |-> d]

\* the result of initialize_context(buffers) and the CONTEXT it leaves
initialize_context(buffers, logInfo, buildOk) ==
    LET d == SelectDevice
        ps == platforms
    IN  IF d = NoDevice
        THEN [result |-> Err(MapUnavailable), context |-> CONTEXT, selected |-> d]
        ELSE IF logInfo /\ ~(PlatformName(ps, d[1]).ok /\ PlatformExtensions(ps, d[1]).ok
                             /\ DeviceVendor(ps, d).ok /\ DeviceName(ps, d).ok)
        THEN [result |-> Err(ApiError), context |-> CONTEXT, selected |-> d]
        ELSE IF ~buildOk
        THEN [result |-> Err(ApiError), context |-> CONTEXT, selected |-> d]
        ELSE IF ~(DeviceVendor(ps, d).ok /\ DeviceName(ps, d).ok /\ PlatformName(ps, d[1]).ok)
        THEN [result |-> Err(ApiError), context |-> CONTEXT, selected |-> d]
        ELSE [result |-> Ok(<<"Vendor " \o DeviceName(ps, d).value,
                              "[OpenCL] " \o PlatformName(ps, d[1]).value \o " "
                                  \o DeviceName(ps, d).value>>),
              context |-> SomeContext(d, BuildContext(get_properties(buffers), d[1], d), d[1],
                              InstalledChecksum(buffers)),
              selected |-> d]

\* the device and context an external command queue belongs to (BufferSource::OpenCL)
ExternalContext(queue) == [platform |-> 0, device |-> <<0, queue>>, properties |-> "external"]

\* get_info: the active device's name, if there is a context and the query is Ok
get_info ==
    IF CONTEXT.tag = "Some"
    THEN IF CONTEXT.device[1] = 0 THEN <<"External device">>
         ELSE IF DeviceName(platforms, CONTEXT.device).ok
         THEN <<DeviceName(platforms, CONTEXT.device).value>>
         ELSE <<>>
    ELSE <<>>

(***************************************************************************)
(* OclWrapper::new                                                         *)
(***************************************************************************)
\* contents of device memory nobody has written yet
Uninit == 0 - 1

NoImage == [tag |-> "None"]
\* an Image bound to a texture, with the dims of its ImageDescriptor
\* (width, height, depth 1): pixel_count() is their product
SomeImage(texture, size, flags) ==
    [tag |-> "Some", texture |-> texture, dims |-> <<size[1], size[2], 1>>, flags |-> flags]

pixel_count(img) == img.dims[1] * img.dims[2] * img.dims[3]

DeviceBuffer(len) == [len |-> len, data |-> Uninit]

\* line 177 left out: every geometry is accepted
GeometryOk_Any(params) == TRUE

\* line 177: the geometry new() accepts
GeometryOk(params) ==
    ~(params.height < 4 \/ params.output_height < 4 \/ params.stride < 1)

\* lines 198-203: whether new() calls initialize_context
NeedsInitialize(ctx, buffers) ==
    ~(ctx.tag = "Some") \/ ctx.surface_checksum # get_checksum(buffers.buffers)

\* lines 212-261: image_src, image_dst of the four variants
ImagesFor(buffers) ==
    LET b == buffers.buffers
    IN  CASE b.kind = "OpenGL" ->
               <<SomeImage(b.input, buffers.input_size, "read_only"),
                 SomeImage(b.output, buffers.output_size, "write_only")>>
          [] b.kind = "DirectX" ->
               IF b.input = b.output
               THEN <<SomeImage(b.input, buffers.input_size, "read_write"),
                      SomeImage(b.input, buffers.input_size, "read_write")>>
               ELSE <<SomeImage(b.input, buffers.input_size, "read_only"),
                      SomeImage(b.output, buffers.output_size, "write_only")>>
          [] OTHER -> <<NoImage, NoImage>>

\* lines 212-261 with the first two fields of the size tuples for the queue and
\* the GL variant
BufferLensFor_FirstTwo(params, buffers) ==
    LET b == buffers.buffers
    IN  CASE b.kind = "Cpu" -> <<b.input.len, b.output.len>>
          [] b.kind \in {"OpenCL", "OpenGL"} ->
               <<buffers.input_size[1] * buffers.input_size[2],
                 buffers.output_size[1] * buffers.output_size[2]>>
          [] b.kind = "DirectX" ->
               <<pixel_count(ImagesFor(buffers)[1]) * params.bytes_per_pixel,
                 pixel_count(ImagesFor(buffers)[2]) * params.bytes_per_pixel>>

\* lines 212-261: the lengths of (source_buffer, dest_buffer)
BufferLensFor(params, buffers) ==
    LET b == buffers.buffers
    IN  CASE b.kind = "Cpu" -> <<b.input.len, b.output.len>>
          [] b.kind = "OpenCL" ->
               <<buffers.input_size[2] * buffers.input_size[3],
                 buffers.output_size[2] * buffers.output_size[3]>>
          [] b.kind = "OpenGL" ->
               <<buffers.input_size[2] * buffers.input_size[3],
                 buffers.output_size[2] * buffers.output_size[3]>>
          [] b.kind = "DirectX" ->
               <<pixel_count(ImagesFor(buffers)[1]) * params.bytes_per_pixel,
                 pixel_count(ImagesFor(buffers)[2]) * params.bytes_per_pixel>>

\* line 268 with the rows of the output
max_matrix_count_Output(params) == 9 * params.output_height

\* line 268
max_matrix_count(params) == 9 * params.height

\* whether new() rebinds the context to an external queue (lines 221-230)
HasExternalQueue(buffers) == buffers.buffers.kind = "OpenCL" /\ buffers.buffers.queue # 0

\* the fallible device calls of new() after the context check, in program order
ConstructionCalls(buffers) ==
    <<"queue">>
    \o (IF HasExternalQueue(buffers) THEN <<"queue_device", "queue_context", "queue_rebound">>
        ELSE <<>>)
    \o (IF buffers.buffers.kind = "OpenGL" THEN <<"image_src", "image_dst">>
        ELSE IF buffers.buffers.kind = "DirectX"
        THEN (IF buffers.buffers.input = buffers.buffers.output THEN <<"image_src">>
              ELSE <<"image_src", "image_dst">>)
        ELSE <<>>)
    \o <<"src", "dst", "program", "buf_params", "buf_drawing", "buf_matrices", "kernel">>

\* the position of call c in q, or Len(q) + 1
RECURSIVE IndexOf(_, _, _)
IndexOf(q, c, i) ==
    IF i > Len(q) \/ q[i] = c THEN i ELSE IndexOf(q, c, i + 1)

\* lines 225-226: the context after the external queue's device and context are adopted
Rebound(ctx, buffers) ==
    [ctx EXCEPT !.device = ExternalContext(buffers.buffers.queue).device,
                !.context = ExternalContext(buffers.buffers.queue)]

\* lines 289-299: the OclWrapper built.  kernel_args: the memory objects bound to
\* the kernel's arguments 0 and 1 (0: the wrapper's own src / dst buffer)
BuildWrapper(params, buffers, drawing_len) ==
    [tag |-> "Some",
     src |-> DeviceBuffer(BufferLensFor(params, buffers)[1]),
     dst |-> DeviceBuffer(BufferLensFor(params, buffers)[2]),
     image_src |-> ImagesFor(buffers)[1],
     image_dst |-> ImagesFor(buffers)[2],
     buf_drawing |-> [len |-> drawing_len],
     buf_matrices |-> [len |-> max_matrix_count(params)],
     kernel_args |-> <<0, 0>>,
     global_work_size |-> <<buffers.output_size[1], buffers.output_size[2]>>]

\* lines 205-302, given the context the check of lines 197-204 left.
\* failAt: the first device call that returns Err ("none": every call succeeds)
Construct(ctx, params, buffers, drawing_len, failAt) ==
    IF ctx.tag # "Some"
    THEN [result |-> Err(AlreadyMapped), context |-> ctx, created |-> <<>>,
          reached |-> "construction"]
    ELSE LET calls == ConstructionCalls(buffers)
             stop == IndexOf(calls, failAt, 1)
             rebound == HasExternalQueue(buffers) /\ stop > IndexOf(calls, "queue_context", 1)
             after == IF rebound THEN Rebound(ctx, buffers) ELSE ctx
         IN  IF stop <= Len(calls)
             THEN [result |-> Err(ApiError), context |-> after,
                   created |-> SubSeq(calls, 1, stop - 1), reached |-> "construction"]
             ELSE [result |-> Ok(BuildWrapper(params, buffers, drawing_len)),
                   context |-> after, created |-> calls, reached |-> "done"]

\* new(params, ocl_names, compute_params, buffers, drawing_len): its result, the
\* CONTEXT it leaves, the device objects it created, how often it called
\* initialize_context and the part of the function it reached ("geometry": line
\* 177, "context": lines 197-204, "construction": lines 205-288, "done": line 289)
new(params, buffers, drawing_len, logInfo, buildOk, failAt) ==
    IF ~GeometryOk(params)
    THEN [result |-> Err(AlreadyMapped), context |-> CONTEXT, created |-> <<>>,
          inits |-> 0, reached |-> "geometry"]
    ELSE IF NeedsInitialize(CONTEXT, buffers)
    THEN LET init == initialize_context(SomeBuffers(buffers), logInfo, buildOk)
         IN  IF ~init.result.ok
             THEN [result |-> init.result, context |-> init.context,
                   created |-> <<>>, inits |-> 1, reached |-> "context"]
             ELSE [inits |-> 1]
                  @@ Construct(init.context, params, buffers, drawing_len, failAt)
    ELSE [inits |-> 0] @@ Construct(CONTEXT, params, buffers, drawing_len, failAt)

(***************************************************************************)
(* Arguments the callers pass.                                             *)
(***************************************************************************)
KernelParams(height, output_height, stride, bytes_per_pixel) ==
    [height |-> height, output_height |-> output_height, stride |-> stride,
     bytes_per_pixel |-> bytes_per_pixel, interpolation |-> 1]

\* a host byte slice: its length and what it is filled with
Slice(len, data) == [len |-> len, data |-> data]

\* a Cpu source: the input slice holds an all-255 frame, the output slice is handed
\* in pre-filled with the pattern 170
Cpu(inLen, outLen) ==
    [kind |-> "Cpu", input |-> Slice(inLen, 255), output |-> Slice(outLen, 170)]
OpenCL(queue, input, output) ==
    [kind |-> "OpenCL", queue |-> queue, input |-> input, output |-> output]
OpenGL(context, input, output) ==
    [kind |-> "OpenGL", context |-> context, input |-> input, output |-> output]
DirectX(device, input, output) ==
    [kind |-> "DirectX", device |-> device, input |-> input, output |-> output]

\* input_size / output_size: the three usize fields, in the order of the tuple
BufferDescription(buffers, input_size, output_size) ==
    [buffers |-> buffers, input_size |-> input_size, output_size |-> output_size]

\* what the callers of the context operations pass
ContextParams ==
    { KernelParams(4, 4, 16, 4), KernelParams(3, 4, 16, 4),
      KernelParams(4, 3, 16, 4), KernelParams(4, 4, 0, 4) }

ContextBuffers ==
    { BufferDescription(Cpu(64, 64), <<4, 4, 16>>, <<4, 4, 16>>),
      BufferDescription(OpenGL(1, 1, 2), <<4, 4, 16>>, <<4, 4, 16>>),
      BufferDescription(OpenCL(1, 6, 7), <<4, 4, 16>>, <<4, 4, 16>>) }

ContextFailures == {"none", "queue", "kernel"}

\* set_device is called with an index 0..MaxIndex
MaxIndex == 2

NoWrapper == [tag |-> "None"]

(***************************************************************************)
(* OclWrapper::undistort_image                                             *)
(*                                                                         *)
(* A run is folded over the program text: `st` carries the wrapper's       *)
(* buffers, the textures acquired and not yet handed back, the caller's    *)
(* output slice, the device calls issued so far (in order, each with       *)
(* whether it returned Ok) and the value returned, once there is one.      *)
(* faults: the device calls that return Err when they are issued.          *)
(***************************************************************************)
NotReturned == [tag |-> "None"]
Returned(r) == [tag |-> "Some", result |-> r]

Running(st) == st.ret.tag = "None"

\* a device call followed by `?`: Err returns from undistort_image
Try(st, call, faults) ==
    [st EXCEPT !.calls = Append(@, [call |-> call, ok |-> call \notin faults]),
               !.ret = IF call \in faults THEN Returned(Err(ApiError)) ELSE @]

\* a device call under `let _ =`: its result is dropped
Ignore(st, call, faults) ==
    [st EXCEPT !.calls = Append(@, [call |-> call, ok |-> call \notin faults])]

\* `return Ok(())` after log::error!
Skip(st) == [st EXCEPT !.ret = Returned(Ok(<<>>))]

Succeeded(st, call) ==
    Running(st) /\ st.calls # <<>> /\ st.calls[Len(st.calls)] = [call |-> call, ok |-> TRUE]

\* line 308 left out: the matrices are uploaded whatever their number
ValidateMatrices_Off(st, itm) == st

\* line 308
ValidateMatrices(st, itm) ==
    IF ~Running(st) THEN st
    ELSE IF st.w.buf_matrices.len < itm.matrices * 9 THEN Skip(st) ELSE st

\* lines 310-313
ValidateImageSrc(st, itm) ==
    IF ~Running(st) THEN st
    ELSE IF st.w.image_src.tag = "Some"
            /\ pixel_count(st.w.image_src) * itm.kernel_params.bytes_per_pixel # st.w.src.len
    THEN Skip(st) ELSE st

\* lines 314-317
ValidateImageDst(st, itm) ==
    IF ~Running(st) THEN st
    ELSE IF st.w.image_dst.tag = "Some"
            /\ pixel_count(st.w.image_dst) * itm.kernel_params.bytes_per_pixel # st.w.dst.len
    THEN Skip(st) ELSE st

\* lines 319-322 without the length check of line 320
UploadOverlay_Unchecked(st, drawing_len, faults) ==
    IF ~Running(st) THEN st
    ELSE IF drawing_len = 0 THEN st
    ELSE Try(st, "write_drawing", faults)

\* lines 319-322
UploadOverlay(st, drawing_len, faults) ==
    IF ~Running(st) THEN st
    ELSE IF drawing_len = 0 THEN st
    ELSE IF st.w.buf_drawing.len # drawing_len THEN Skip(st)
    ELSE Try(st, "write_drawing", faults)

\* lines 324-329 without the check of the output slice (line 326)
AcquireCpu_InputOnly(st, b, faults) ==
    IF st.w.src.len # b.input.len THEN Skip(st)
    ELSE LET t == Try(st, "write_src", faults)
         IN  IF Succeeded(t, "write_src") THEN [t EXCEPT !.w.src.data = b.input.data] ELSE t

\* lines 324-329 with the upload of line 328 in front of the check of line 326
AcquireCpu_WriteFirst(st, b, faults) ==
    IF st.w.src.len # b.input.len THEN Skip(st)
    ELSE LET t == Try(st, "write_src", faults)
             u == IF Succeeded(t, "write_src") THEN [t EXCEPT !.w.src.data = b.input.data] ELSE t
         IN  IF Running(u) /\ st.w.dst.len # b.output.len THEN Skip(u) ELSE u

\* lines 324-329
AcquireCpu(st, b, faults) ==
    IF st.w.src.len # b.input.len THEN Skip(st)
    ELSE IF st.w.dst.len # b.output.len THEN Skip(st)
    ELSE LET t == Try(st, "write_src", faults)
         IN  IF Succeeded(t, "write_src") THEN [t EXCEPT !.w.src.data = b.input.data] ELSE t

\* lines 330-336
AcquireOpenCL(st, b, faults) ==
    LET t0 == Try(st, "set_arg_0", faults)
        t1 == IF Succeeded(t0, "set_arg_0")
              THEN Try([t0 EXCEPT !.w.kernel_args[1] = b.input], "set_arg_1", faults)
              ELSE t0
    IN  IF Succeeded(t1, "set_arg_1") THEN [t1 EXCEPT !.w.kernel_args[2] = b.output] ELSE t1

\* lines 337-350 with `?` on the copy: a failed copy returns before the release
AcquireTexture_CopyReturns(st, faults) ==
    IF st.w.image_src.tag # "Some" THEN st
    ELSE LET tex == st.w.image_src.texture
             t0 == Try(st, "acquire_src", faults)
         IN  IF ~Succeeded(t0, "acquire_src") THEN t0
             ELSE LET t1 == Try([t0 EXCEPT !.held = @ \cup {tex}], "copy_to_buffer", faults)
                  IN  IF ~Succeeded(t1, "copy_to_buffer") THEN t1
                      ELSE LET t3 == Try([t1 EXCEPT !.w.src.data = 255], "release_src", faults)
                           IN  [t3 EXCEPT !.held = @ \ {tex}]

\* lines 337-350: acquire, copy_to_buffer, release of image_src (gl_ or d3d11_)
AcquireTexture(st, faults) ==
    IF st.w.image_src.tag # "Some" THEN st
    ELSE LET tex == st.w.image_src.texture
             t0 == Try(st, "acquire_src", faults)
         IN  IF ~Succeeded(t0, "acquire_src") THEN t0
             ELSE LET t1 == Ignore([t0 EXCEPT !.held = @ \cup {tex}], "copy_to_buffer", faults)
                      t2 == IF "copy_to_buffer" \notin faults
                            THEN [t1 EXCEPT !.w.src.data = 255] ELSE t1
                      t3 == Try(t2, "release_src", faults)
                  IN  [t3 EXCEPT !.held = @ \ {tex}]

\* lines 323-351
AcquireInput(st, b, faults) ==
    IF ~Running(st) THEN st
    ELSE CASE b.kind = "Cpu" -> AcquireCpu(st, b, faults)
           [] b.kind = "OpenCL" -> AcquireOpenCL(st, b, faults)
           [] OTHER -> AcquireTexture(st, faults)

\* line 353
UploadParams(st, faults) ==
    IF ~Running(st) THEN st ELSE Try(st, "write_params", faults)

\* line 354
UploadMatrices(st, faults) ==
    IF ~Running(st) THEN st ELSE Try(st, "write_matrices", faults)

\* line 356: the kernel reads argument 0 and writes argument 1 (a pass-through
\* kernel: the frame it writes is the frame it reads)
EnqueueKernel(st, faults) ==
    IF ~Running(st) THEN st
    ELSE LET t == Try(st, "kernel", faults)
         IN  IF Succeeded(t, "kernel") /\ t.w.kernel_args = <<0, 0>>
             THEN [t EXCEPT !.w.dst.data = t.w.src.data] ELSE t

\* lines 359-361 with a read that does not reach the caller's slice
RetrieveCpu_Lost(st, faults) == Try(st, "read_dst", faults)

\* lines 359-361
RetrieveCpu(st, faults) ==
    LET t == Try(st, "read_dst", faults)
    IN  IF Succeeded(t, "read_dst") THEN [t EXCEPT !.output.data = t.w.dst.data] ELSE t

\* lines 362-379: acquire, copy_to_image, release of image_dst (gl_ or d3d11_)
RetrieveTexture(st, faults) ==
    IF st.w.image_dst.tag # "Some" THEN st
    ELSE LET tex == st.w.image_dst.texture
             t0 == Try(st, "acquire_dst", faults)
         IN  IF ~Succeeded(t0, "acquire_dst") THEN t0
             ELSE LET t1 == Ignore([t0 EXCEPT !.held = @ \cup {tex}], "copy_to_image", faults)
                      t2 == Try(t1, "release_dst", faults)
                  IN  [t2 EXCEPT !.held = @ \ {tex}]

\* lines 358-381
RetrieveOutput(st, b, faults) ==
    IF ~Running(st) THEN st
    ELSE CASE b.kind = "Cpu" -> RetrieveCpu(st, faults)
           [] b.kind = "OpenCL" -> st
           [] OTHER -> RetrieveTexture(st, faults)

\* line 385
Finish(st) == IF Running(st) THEN [st EXCEPT !.ret = Returned(Ok(<<>>))] ELSE st

\* undistort_image(&self, buffers, itm, drawing_buffer) on wrapper w
undistort_image(w, held, buffers, itm, drawing_len, faults) ==
    LET b  == buffers.buffers
        s0 == [w |-> w, held |-> held, calls |-> <<>>, ret |-> NotReturned,
               output |-> IF b.kind = "Cpu" THEN b.output ELSE Slice(0, 0)]
        s1 == ValidateMatrices(s0, itm)
        s2 == ValidateImageDst(ValidateImageSrc(s1, itm), itm)
        s3 == UploadOverlay(s2, drawing_len, faults)
        s4 == AcquireInput(s3, b, faults)
        s5 == UploadMatrices(UploadParams(s4, faults), faults)
        s6 == EnqueueKernel(s5, faults)
        s7 == RetrieveOutput(s6, b, faults)
    IN  Finish(s7)

(***************************************************************************)
(* Spec: the operations on the CONTEXT singleton, one call at a time.      *)
(* `last` holds a finished call (arguments, the CONTEXT it found, result)  *)
(* until the caller goes on to its next call; between calls the caller     *)
(* keeps, if the call was a construction, the checksum of its source and   *)
(* how far it got.                                                         *)
(***************************************************************************)
NotConstructed == [checksum |-> 0 - 1, reached |-> "none"]

Idle(constructed) == [op |-> "idle", constructed |-> constructed]

Init ==
    /\ platforms \in Environments
    /\ CONTEXT = NoContext
    /\ self = NoWrapper
    /\ description = NoBuffers
    /\ textures = {}
    /\ last = Idle(NotConstructed)
    /\ callers = <<>>
    /\ lock = Unlocked

ListDevices ==
    /\ last.op = "idle"
    /\ \E panic \in PanicPoints :
        last' = [op |-> "list_devices", panic |-> panic,
                 returned |-> list_devices(panic).returned,
                 result |-> list_devices(panic).value]
    /\ UNCHANGED <<platforms, CONTEXT, self, description, textures, callers, lock>>

GetInfo ==
    /\ last.op = "idle"
    /\ last' = [op |-> "get_info", result |-> get_info]
    /\ UNCHANGED <<platforms, CONTEXT, self, description, textures, callers, lock>>

SetDevice ==
    /\ last.op = "idle"
    /\ \E index \in 0..MaxIndex, buffers \in ContextBuffers, logInfo, buildOk \in BOOLEAN :
        LET r == set_device(index, buffers, logInfo, buildOk)
        IN  /\ CONTEXT' = r.context
            /\ last' = [op |-> "set_device", index |-> index, buffers |-> buffers,
                        logInfo |-> logInfo, buildOk |-> buildOk,
                        before |-> CONTEXT, result |-> r.result]
            /\ UNCHANGED <<platforms, self, description, textures, callers, lock>>

InitializeContext ==
    /\ last.op = "idle"
    /\ \E buffers \in {NoBuffers} \cup {SomeBuffers(b) : b \in ContextBuffers},
          logInfo, buildOk \in BOOLEAN :
        LET r == initialize_context(buffers, logInfo, buildOk)
        IN  /\ CONTEXT' = r.context
            /\ last' = [op |-> "initialize_context", buffers |-> buffers,
                        logInfo |-> logInfo, buildOk |-> buildOk,
                        before |-> CONTEXT, result |-> r.result, selected |-> r.selected]
            /\ UNCHANGED <<platforms, self, description, textures, callers, lock>>

New ==
    /\ last.op = "idle"
    /\ \E params \in ContextParams, buffers \in ContextBuffers,
          logInfo, buildOk \in BOOLEAN, failAt \in ContextFailures :
        LET r == new(params, buffers, 0, logInfo, buildOk, failAt)
        IN  /\ CONTEXT' = r.context
            /\ last' = [op |-> "new", params |-> params, buffers |-> buffers,
                        previous |-> last.constructed, before |-> CONTEXT,
                        result |-> r.result, created |-> r.created, inits |-> r.inits,
                        reached |-> r.reached]
            /\ UNCHANGED <<platforms, self, description, textures, callers, lock>>

\* the caller takes the result and goes on
Continue ==
    /\ last.op # "idle"
    /\ last' = Idle(IF last.op = "new"
                    THEN [checksum |-> get_checksum(last.buffers.buffers),
                          reached |-> last.reached]
                    ELSE NotConstructed)
    /\ UNCHANGED <<platforms, CONTEXT, self, description, textures, callers, lock>>

Next == ListDevices \/ GetInfo \/ SetDevice \/ InitializeContext \/ New \/ Continue

Spec == Init /\ [][Next]_vars

(***************************************************************************)
(* SpecDispatch: one caller builds an OclWrapper and dispatches frames on  *)
(* it.  Each frame it passes a source of the variant the wrapper was built *)
(* for; the slices, the frame's parameters and the overlay may have        *)
(* drifted from the geometry of construction.                              *)
(***************************************************************************)
DispatchParams == {KernelParams(4, 4, 16, 4), KernelParams(4, 5, 16, 4)}

DispatchBuffers ==
    { BufferDescription(Cpu(64, 64), <<4, 4, 16>>, <<4, 4, 16>>),
      BufferDescription(OpenCL(0, 6, 7), <<4, 4, 16>>, <<4, 4, 16>>),
      BufferDescription(OpenGL(1, 1, 2), <<4, 4, 16>>, <<4, 4, 16>>),
      BufferDescription(OpenGL(1, 1, 2), <<4, 4, 16>>, <<4, 4, 20>>),
      BufferDescription(DirectX(1, 5, 5), <<4, 4, 16>>, <<4, 4, 16>>),
      BufferDescription(DirectX(1, 5, 6), <<4, 4, 16>>, <<4, 4, 16>>) }

\* the per-frame arguments: FrameTransform (the fields undistort_image reads) ...
\* for the geometry the wrapper was constructed with
FrameTransform(params, bytes_per_pixel, matrices) ==
    [kernel_params |-> [params EXCEPT !.bytes_per_pixel = bytes_per_pixel],
     matrices |-> matrices]

\* one matrix per input row, per output row, one fewer, one more; another pixel size
FrameTransforms(params) ==
    { FrameTransform(params, params.bytes_per_pixel, params.height),
      FrameTransform(params, params.bytes_per_pixel, params.output_height),
      FrameTransform(params, params.bytes_per_pixel, params.height - 1),
      FrameTransform(params, params.bytes_per_pixel, params.height + 1),
      FrameTransform(params, 1, params.height) }

\* ... the length of drawing_buffer ...
DrawingLens == {0, 8, 9}

\* ... and the source: the description's own, or for Cpu slices of these lengths
SliceLens == {16, 64}

\* the byte the frame in the input slice is filled with
FrameFills == {255, 85}

SourcesFor(buffers) ==
    IF buffers.buffers.kind = "Cpu"
    THEN {[Cpu(i, o) EXCEPT !.input.data = f] : i \in SliceLens, o \in SliceLens,
                                                f \in FrameFills}
    ELSE {buffers.buffers}

\* the device calls undistort_image can issue for a source of this kind
DispatchCalls(kind) ==
    {"write_drawing", "write_params", "write_matrices", "kernel"}
    \cup (CASE kind = "Cpu" -> {"write_src", "read_dst"}
            [] kind = "OpenCL" -> {"set_arg_0", "set_arg_1"}
            [] OTHER -> {"acquire_src", "copy_to_buffer", "release_src",
                         "acquire_dst", "copy_to_image", "release_dst"})

\* at most MaxFaults of the calls of one dispatch fail
MaxFaults == 2

FaultSets(kind) == {F \in SUBSET DispatchCalls(kind) : Cardinality(F) <= MaxFaults}

InitDispatch ==
    /\ platforms = <<AmdPlatform>>
    /\ CONTEXT = NoContext
    /\ self = NoWrapper
    /\ description = NoBuffers
    /\ textures = {}
    /\ last = Idle(NotConstructed)
    /\ callers = <<>>
    /\ lock = Unlocked

\* the caller constructs its wrapper
Build ==
    /\ last.op = "idle"
    /\ self = NoWrapper
    /\ \E params \in DispatchParams, buffers \in DispatchBuffers, buildOk \in BOOLEAN :
        LET r == new(params, buffers, 8, TRUE, buildOk, "none")
        IN  /\ CONTEXT' = r.context
            /\ self' = IF r.result.ok THEN r.result.value ELSE NoWrapper
            /\ description' = IF r.result.ok
                              THEN SomeBuffers(buffers) @@ [params |-> params]
                              ELSE NoBuffers
            /\ last' = [op |-> "new", params |-> params, buffers |-> buffers,
                        previous |-> last.constructed, before |-> CONTEXT,
                        result |-> r.result, created |-> r.created, inits |-> r.inits,
                        reached |-> r.reached]
            /\ UNCHANGED <<platforms, textures, callers, lock>>

\* the caller dispatches one frame
Undistort ==
    /\ last.op = "idle"
    /\ self # NoWrapper
    /\ \E b \in SourcesFor(description.value), itm \in FrameTransforms(description.params),
          drawing_len \in DrawingLens, faults \in FaultSets(description.value.buffers.kind) :
        LET buffers == [description.value EXCEPT !.buffers = b]
            st == undistort_image(self, textures, buffers, itm, drawing_len, faults)
        IN  /\ self' = st.w
            /\ textures' = st.held
            /\ last' = [op |-> "undistort_image", buffers |-> buffers, itm |-> itm,
                        drawing_len |-> drawing_len, faults |-> faults,
                        before |-> self,
                        result |-> st.ret.result, calls |-> st.calls, output |-> st.output]
            /\ UNCHANGED <<platforms, CONTEXT, description, callers, lock>>

NextDispatch == Build \/ Undistort \/ Continue

SpecDispatch == InitDispatch /\ [][NextDispatch]_vars

(***************************************************************************)
(* Properties of Spec.                                                     *)
(***************************************************************************)
IsNew == last.op = "new"

\* the source of the construction in `last` has the checksum of the construction
\* that came right before it
SameSourceAsBefore == last.previous.checksum = get_checksum(last.buffers.buffers)

\* no active context when the call began, or one tagged with another checksum
ContextMissingOrOther ==
    \/ last.before.tag = "None"
    \/ last.before.surface_checksum # get_checksum(last.buffers.buffers)

\* C1 as stated: a construction calls initialize_context if and only if no
\* active context exists or the stored surface_checksum differs from the checksum
\* of the requested source, and a construction that follows a construction with
\* the same source never calls it (the rebuild counter stays constant).
C1_RebuildIffAndOnce ==
    IsNew => /\ (last.inits > 0 <=> ContextMissingOrOther)
             /\ (SameSourceAsBefore => last.inits = 0)

\* C1 amended: a construction that passes the geometry check calls
\* initialize_context exactly once if no active context exists or the stored
\* checksum differs from the source's, and not at all otherwise; one that fails
\* the geometry check never calls it.  A construction that follows a
\* construction with the same source which got past the context check (its
\* initialize_context succeeded or was not needed) does not call it.
C1_RebuildRule ==
    IsNew => /\ last.inits = (IF ~(last.params.height < 4) /\ ~(last.params.output_height < 4)
                                 /\ ~(last.params.stride < 1) /\ ContextMissingOrOther
                              THEN 1 ELSE 0)
             /\ (SameSourceAsBefore /\ last.previous.reached \in {"construction", "done"}
                 => last.inits = 0)

\* a second construction for a shared-texture source, after one that succeeded,
\* finds the context of the first and succeeds without initialize_context
C1_Witness ==
    /\ IsNew
    /\ last.buffers.buffers.kind = "OpenGL"
    /\ SameSourceAsBefore /\ last.previous.reached = "done"
    /\ last.result.ok /\ last.inits = 0

(***************************************************************************)
(* Properties of SpecDispatch.                                             *)
(***************************************************************************)
IsDispatch == last.op = "undistort_image"

\* the device call c was issued in the dispatch in `last` / returned Ok / Err
Called(c) == \E i \in 1..Len(last.calls) : last.calls[i].call = c
CalledOk(c) == \E i \in 1..Len(last.calls) : last.calls[i] = [call |-> c, ok |-> TRUE]
CalledErr(c) == \E i \in 1..Len(last.calls) : last.calls[i] = [call |-> c, ok |-> FALSE]

SourceKind == last.buffers.buffers.kind

\* the lengths the frame supplies for the source and the destination buffer
\* are those of the buffers: the slices of a Cpu source, the bytes of the images
FrameFitsSourceAndDest ==
    /\ SourceKind = "Cpu" => /\ last.buffers.buffers.input.len = self.src.len
                             /\ last.buffers.buffers.output.len = self.dst.len
    /\ self.image_src.tag = "Some" =>
           self.image_src.dims[1] * self.image_src.dims[2] * self.image_src.dims[3]
               * last.itm.kernel_params.bytes_per_pixel = self.src.len
    /\ self.image_dst.tag = "Some" =>
           self.image_dst.dims[1] * self.image_dst.dims[2] * self.image_dst.dims[3]
               * last.itm.kernel_params.bytes_per_pixel = self.dst.len

\* C2 as stated: the kernel is enqueued only if every device buffer (source,
\* destination, matrix buffer, overlay buffer) is exactly as long as the data the
\* frame supplies for it.
C2_EnqueueOnlyIfAllEqual ==
    IsDispatch /\ Called("kernel") =>
        /\ FrameFitsSourceAndDest
        /\ self.buf_matrices.len = 9 * last.itm.matrices
        /\ self.buf_drawing.len = last.drawing_len

\* C2 amended: the kernel is enqueued only if the frame's matrices fit the matrix
\* buffer (9 x matrices.len() is at most its length), the overlay is empty or
\* exactly as long as the drawing buffer, and the source and destination buffers
\* are exactly as long as the slices of a Cpu source and as the bytes of the
\* shared-texture images; otherwise the kernel is not enqueued.
C2_EnqueueOnlyIfValidated ==
    IsDispatch /\ Called("kernel") =>
        /\ FrameFitsSourceAndDest
        /\ 9 * last.itm.matrices <= self.buf_matrices.len
        /\ (last.drawing_len = 0 \/ last.drawing_len = self.buf_drawing.len)

\* the kernel runs for a frame with fewer matrices than the buffer holds and no overlay
C2_Witness ==
    /\ IsDispatch /\ CalledOk("kernel")
    /\ 9 * last.itm.matrices < self.buf_matrices.len
    /\ last.drawing_len = 0 /\ self.buf_drawing.len > 0

CpuOutputMismatch ==
    IsDispatch /\ SourceKind = "Cpu" /\ last.buffers.buffers.output.len # self.dst.len

\* C3 as stated: a dispatch with a Cpu source whose output slice is not as long as
\* the destination buffer returns success, enqueues no kernel and leaves the
\* output slice as it was.
C3_MismatchReturnsOkUntouched ==
    CpuOutputMismatch =>
        /\ last.result.ok
        /\ ~Called("kernel")
        /\ last.output = last.buffers.buffers.output

\* C3 amended: such a dispatch enqueues no kernel and leaves the output slice as
\* it was; it returns success unless the overlay upload, which comes before the
\* check of the slices, failed, and then it returns that error.
C3_MismatchUntouched ==
    CpuOutputMismatch =>
        /\ ~Called("kernel")
        /\ ~Called("read_dst")
        /\ last.output = last.buffers.buffers.output
        /\ (last.result.ok <=> ~CalledErr("write_drawing"))

\* only the output slice is off: the overlay is uploaded, then the frame is skipped
C3_Witness ==
    /\ CpuOutputMismatch
    /\ last.buffers.buffers.input.len = self.src.len
    /\ 9 * last.itm.matrices <= self.buf_matrices.len
    /\ CalledOk("write_drawing")
    /\ last.result.ok /\ last.output.data = 170

\* C4: a dispatch given a non-empty overlay longer than the allocated drawing
\* buffer returns success having issued no device call at all: no write to a
\* device buffer and no kernel enqueue; the wrapper's buffers are as before.
C4_LongOverlaySkips ==
    IsDispatch /\ last.drawing_len > self.buf_drawing.len =>
        /\ last.calls = <<>>
        /\ last.result = Ok(<<>>)
        /\ self = last.before

\* the overlay is the only thing wrong with the frame
C4_Witness ==
    /\ IsDispatch /\ last.drawing_len > self.buf_drawing.len
    /\ 9 * last.itm.matrices <= self.buf_matrices.len
    /\ FrameFitsSourceAndDest
    /\ last.result.ok

\* the step of the procedure of 4.5 a device call belongs to
StepOf(c) ==
    CASE c = "write_drawing" -> 2
      [] c \in {"write_src", "set_arg_0", "set_arg_1",
                "acquire_src", "copy_to_buffer", "release_src"} -> 3
      [] c \in {"write_params", "write_matrices"} -> 4
      [] c = "kernel" -> 5
      [] c \in {"read_dst", "acquire_dst", "copy_to_image", "release_dst"} -> 6

\* C5 as stated: the steps of a dispatch occur in the fixed order validation,
\* overlay, input acquisition, KernelParams then matrices, kernel enqueue, output
\* retrieval; no step runs before its predecessor has completed successfully (a
\* device call is issued only if every call of the steps before its own returned
\* Ok); the caller's
\* output is written only after the kernel enqueue of the same call succeeded.
C5_OrderedAndNoStepAfterFailure ==
    IsDispatch =>
        /\ \A i, j \in 1..Len(last.calls) :
               i < j => StepOf(last.calls[i].call) <= StepOf(last.calls[j].call)
        /\ \A i, j \in 1..Len(last.calls) :
               (i < j /\ last.calls[i].call = "write_matrices")
                   => last.calls[j].call # "write_params"
        /\ (9 * last.itm.matrices > self.buf_matrices.len => last.calls = <<>>)
        /\ \A i, j \in 1..Len(last.calls) :
               StepOf(last.calls[i].call) < StepOf(last.calls[j].call) => last.calls[i].ok
        /\ (Called("read_dst") \/ Called("copy_to_image")) => CalledOk("kernel")

C7_FailedCallReturnsError ==
    IsDispatch /\ (\E i \in 1..Len(last.calls) : ~last.calls[i].ok) => ~last.result.ok

(***************************************************************************)
(* Properties of Spec: device selection.                                   *)
(***************************************************************************)
IsInitializeContext == last.op = "initialize_context"

\* device i of the enumeration matches keyword k of the preference list
MatchAt(i, k) == MatchesPreference(platforms, Enumerate(platforms)[i], preference[k])
KeywordMatched(k) == \E i \in 1..Len(Enumerate(platforms)) : MatchAt(i, k)
GpuAt(i) == IsGpu(platforms, Enumerate(platforms)[i])

\* C8: initialize_context selects the first device in enumeration order whose
\* lower-cased "<platform> <device>" name contains the earliest preference keyword
\* that any device matches; if no keyword matches any device, the first device
\* whose type is GPU; if no device qualifies it fails with the device-unavailable
\* error (and leaves the context as it was).
C8_SelectionRule ==
    IsInitializeContext =>
        LET q == Enumerate(platforms)
        IN  IF \E k \in 1..Len(preference) : KeywordMatched(k)
            THEN \E k \in 1..Len(preference), i \in 1..Len(q) :
                    /\ last.selected = q[i]
                    /\ MatchAt(i, k)
                    /\ \A k2 \in 1..(k - 1) : ~KeywordMatched(k2)
                    /\ \A i2 \in 1..(i - 1) : ~MatchAt(i2, k)
            ELSE IF \E i \in 1..Len(q) : GpuAt(i)
            THEN \E i \in 1..Len(q) :
                    /\ last.selected = q[i]
                    /\ GpuAt(i)
                    /\ \A i2 \in 1..(i - 1) : ~GpuAt(i2)
            ELSE /\ last.selected = NoDevice
                 /\ last.result = Err(MapUnavailable)
                 /\ CONTEXT = last.before

\* the selected device comes after a device that matches a later keyword only,
\* and its context is installed
C8_Witness ==
    /\ IsInitializeContext /\ last.result.ok /\ CONTEXT.device = last.selected
    /\ \E i, i2 \in 1..Len(Enumerate(platforms)) :
          /\ i2 < i
          /\ last.selected = Enumerate(platforms)[i]
          /\ \E k \in 1..Len(preference) :
                /\ MatchAt(i, k)
                /\ \A k1 \in 1..k : ~MatchAt(i2, k1)
                /\ \E k2 \in (k + 1)..Len(preference) : MatchAt(i2, k2)

IsSetDevice == last.op = "set_device"

\* C9 as stated: set_device(i, buffers) installs a context for exactly the device
\* list_devices() reports at position i, both enumerating with the same filter
\* and order: it succeeds only for a position of the list, then the active
\* context is that of the listed device, and it reports the index out of range
\* exactly when the list has no such position.
C9_SetDeviceInstallsListed ==
    IsSetDevice =>
        /\ last.result.ok =>
               /\ last.index + 1 <= Len(ListedDevices)
               /\ CONTEXT.device = ListedDevices[last.index + 1].device
        /\ last.result = Err(MapUnavailable) <=> last.index + 1 > Len(ListedDevices)

SetDeviceOutOfRange == last.index + 1 > Len(SetDeviceCandidates)

\* C10 as stated: set_device with an index out of range of the filtered
\* enumeration, or whose context creation fails, returns the device-unavailable
\* error and leaves the active context as it was.
C10_FailsDeviceUnavailable ==
    IsSetDevice /\ (SetDeviceOutOfRange \/ ~last.buildOk) =>
        /\ last.result = Err(MapUnavailable)
        /\ CONTEXT = last.before

\* C10 amended: such a call fails and leaves the active context (device, context,
\* platform, surface_checksum) as it was; the error is device-unavailable when
\* the index is out of range, and the device API's own error when a query or the
\* context creation for the device at the index fails.
C10_FailsAndKeepsContext ==
    /\ IsSetDevice /\ (SetDeviceOutOfRange \/ ~last.buildOk) =>
        /\ ~last.result.ok
        /\ CONTEXT = last.before
        /\ last.result = Err(IF SetDeviceOutOfRange THEN MapUnavailable ELSE ApiError)
    /\ IsSetDevice /\ ~last.result.ok => CONTEXT = last.before

\* context creation fails for a device in range while a context is active
C10_Witness ==
    /\ IsSetDevice /\ ~SetDeviceOutOfRange /\ ~last.buildOk
    /\ last.before.tag = "Some"
    /\ last.result = Err(ApiError)
    /\ CONTEXT = last.before

(***************************************************************************)
(* Properties of Spec: construction.                                       *)
(***************************************************************************)
DegenerateGeometry ==
    last.params.height < 4 \/ last.params.output_height < 4 \/ last.params.stride < 1

\* C11: a construction with degenerate geometry (height below 4, output height
\* below 4, or stride below 1) fails with the configuration error of line 177
\* before the context is checked or rebuilt: initialize_context is not called,
\* the active context is unchanged and no device object (queue, buffer, image,
\* program, kernel) is created.
C11_DegenerateGeometryFailsFirst ==
    IsNew /\ DegenerateGeometry =>
        /\ last.result = Err(AlreadyMapped)
        /\ last.inits = 0
        /\ CONTEXT = last.before
        /\ last.created = <<>>

\* a degenerate construction on a machine where a context could have been built,
\* with none active
C11_Witness ==
    /\ IsNew /\ DegenerateGeometry
    /\ last.params.height >= 4 /\ last.params.stride < 1
    /\ last.before.tag = "None" /\ SelectDevice # NoDevice
    /\ ~last.result.ok /\ CONTEXT.tag = "None"

(***************************************************************************)
(* Properties of Spec: enumeration.                                        *)
(***************************************************************************)
IsListDevices == last.op = "list_devices"

\* the entry list_devices makes for device d: all three queries succeed and the
\* entry holds no denylisted substring
Listable(d) ==
    /\ PlatformName(platforms, d[1]).ok
    /\ DeviceName(platforms, d).ok
    /\ DeviceVersion(platforms, d).ok
    /\ \A e \in 1..Len(EXCLUSIONS) :
          ~Contains(PlatformName(platforms, d[1]).value \o " " \o DeviceName(platforms, d).value
                    \o ": " \o DeviceVersion(platforms, d).value, EXCLUSIONS[e])

QueryFails(d) ==
    ~(PlatformName(platforms, d[1]).ok /\ DeviceName(platforms, d).ok
      /\ DeviceVersion(platforms, d).ok)

\* C12: list_devices never propagates a fault: it always returns to its caller,
\* with an empty sequence whenever a step of the enumeration panics; without a
\* panic, a device whose name or version query returns an error has no entry and
\* the devices around it are listed all the same.
C12_ListDevicesIsolatesFaults ==
    IsListDevices =>
        /\ last.returned
        /\ last.panic # "none" => last.result = <<>>
        /\ last.panic = "none" =>
              LET q == Driver[platforms].enumerated
                  kept == {i \in 1..Len(q) : Listable(q[i])}
              IN  /\ Len(last.result) = Cardinality(kept)
                  /\ \A j \in 1..Len(last.result) :
                        \E i \in kept :
                            /\ Cardinality({i2 \in kept : i2 <= i}) = j
                            /\ last.result[j] =
                                   PlatformName(platforms, q[i][1]).value \o " "
                                   \o DeviceName(platforms, q[i]).value \o ": "
                                   \o DeviceVersion(platforms, q[i]).value

\* the enumeration panics on a machine whose devices would have been listed
C12_Witness ==
    /\ IsListDevices /\ last.panic = "Device::name"
    /\ \E i \in 1..Len(Driver[platforms].enumerated) : Listable(Driver[platforms].enumerated[i])
    /\ \E i \in 1..Len(Driver[platforms].enumerated) : QueryFails(Driver[platforms].enumerated[i])
    /\ last.returned /\ last.result = <<>>

(***************************************************************************)
(* Properties of SpecDispatch: the frame.                                  *)
(***************************************************************************)
\* every length the dispatch validates is as the wrapper expects it
AllSizesMatch ==
    /\ FrameFitsSourceAndDest
    /\ 9 * last.itm.matrices <= self.buf_matrices.len
    /\ (last.drawing_len = 0 \/ last.drawing_len = self.buf_drawing.len)

\* C13: for a Cpu source with matching sizes, a successful dispatch leaves in the
\* caller's output slice exactly what the kernel produced in the destination
\* buffer from the input uploaded in this same call: with the pass-through
\* kernel the output frame is the input frame of this call (all-255 in, all-255
\* out), whatever an earlier frame left in the buffers.
C13_CpuRoundTrip ==
    IsDispatch /\ SourceKind = "Cpu" /\ AllSizesMatch /\ last.result.ok =>
        /\ last.output.len = last.buffers.buffers.output.len
        /\ last.output.data = self.dst.data
        /\ self.src.data = last.buffers.buffers.input.data
        /\ last.output.data = last.buffers.buffers.input.data

\* a frame of another fill than the one the buffers held from the frame before
C13_Witness ==
    /\ IsDispatch /\ SourceKind = "Cpu" /\ AllSizesMatch /\ last.result.ok
    /\ last.before.src.data = 255 /\ last.before.dst.data = 255
    /\ last.buffers.buffers.input = [len |-> 64, data |-> 85]
    /\ last.output = [len |-> 64, data |-> 85]

(***************************************************************************)
(* SpecKernel: the composition of the kernel source (lines 179-193), a     *)
(* pure function of the template and the tokens, applied to templates that *)
(* hold each placeholder once.                                             *)
(***************************************************************************)
\* str::replace: every non-overlapping occurrence of from, left to right
RECURSIVE replace(_, _, _)
replace(s, from, to) ==
    LET hits == {i \in 1..(Len(s) - Len(from) + 1) : SubSeq(s, i, i + Len(from) - 1) = from}
    IN  IF hits = {} THEN s
        ELSE LET first == CHOOSE i \in hits : \A j \in hits : i <= j
             IN  SubSeq(s, 1, first - 1) \o to
                 \o replace(SubSeq(s, first + Len(from), Len(s)), from, to)

\* lines 182-183
default_digital_lens ==
    "float2 digital_undistort_point(float2 uv, __global KernelParams *p) { return uv; }\n"
    \o "                                        "
    \o "float2 digital_distort_point(float2 uv, __global KernelParams *p) { return uv; }"

\* lines 181-184: distortion_model.opencl_functions() followed by the digital
\* lens's functions, or by the fallback when there is no digital lens
lens_model_functions(distortion, digital_lens) ==
    distortion \o (IF digital_lens.tag = "Some" THEN digital_lens.value
                   ELSE default_digital_lens)

\* lines 186-192 with the short placeholders replaced before the long ones
ComposeKernel_ShortFirst(template, ocl_names, distortion, digital_lens, params) ==
    LET k1 == replace(template, "LENS_MODEL_FUNCTIONS;",
                      lens_model_functions(distortion, digital_lens))
        k2 == replace(k1, "DATA_CONVERT", ocl_names[2])
        k3 == replace(k2, "DATA_TYPE", ocl_names[1])
        k4 == replace(k3, "DATA_CONVERTF", ocl_names[4])
        k5 == replace(k4, "DATA_TYPEF", ocl_names[3])
        k6 == replace(k5, "PIXEL_BYTES", ToString(params.bytes_per_pixel))
    IN  replace(k6, "INTERPOLATION", ToString(params.interpolation))

\* lines 186-192: the chain of replace() calls (ocl_names.0 is ocl_names[1])
ComposeKernel(template, ocl_names, distortion, digital_lens, params) ==
    LET k1 == replace(template, "LENS_MODEL_FUNCTIONS;",
                      lens_model_functions(distortion, digital_lens))
        k2 == replace(k1, "DATA_CONVERTF", ocl_names[4])
        k3 == replace(k2, "DATA_TYPEF", ocl_names[3])
        k4 == replace(k3, "DATA_CONVERT", ocl_names[2])
        k5 == replace(k4, "DATA_TYPE", ocl_names[1])
        k6 == replace(k5, "PIXEL_BYTES", ToString(params.bytes_per_pixel))
    IN  replace(k6, "INTERPOLATION", ToString(params.interpolation))

\* the seven placeholders of the template
Placeholders ==
    <<"LENS_MODEL_FUNCTIONS", "DATA_CONVERTF", "DATA_TYPEF", "DATA_CONVERT", "DATA_TYPE",
      "PIXEL_BYTES", "INTERPOLATION">>

\* a text of one "(...)" line per slot, the slots in the given order
RECURSIVE Pieces(_, _, _)
Pieces(order, texts, i) ==
    IF i > Len(order) THEN ""
    ELSE "(" \o texts[order[i]] \o ")\n" \o Pieces(order, texts, i + 1)

\* a template: each placeholder once, in some order, each followed by sep
Template(order, sep) ==
    Pieces(order, [k \in 1..Len(Placeholders) |-> Placeholders[k] \o sep], 1)

\* the orders the placeholders come in: the rotations of the list and their mirrors
TemplateOrders ==
    LET n == Len(Placeholders)
        Rotation(r) == [i \in 1..n |-> ((i + r - 1) % n) + 1]
        Mirror(order) == [i \in 1..n |-> order[n + 1 - i]]
    IN  {Rotation(r) : r \in 0..(n - 1)} \cup {Mirror(Rotation(r)) : r \in 0..(n - 1)}

OclNames ==
    { <<"uchar4", "convert_uchar4", "float4", "convert_float4">>,
      <<"float", "convert_float", "float", "convert_float">> }

DistortionFunctions ==
    { "float2 undistort_point(float2 uv, __global KernelParams *p) { return uv; }\n",
      "float2 distort_point(float x, float y, float z, __global KernelParams *p);\n" }

DigitalLenses ==
    { [tag |-> "None"],
      [tag |-> "Some", value |-> "float2 digital_distort_point(float2 uv) { return uv * 2; }"] }

InitKernel ==
    /\ platforms = <<>>
    /\ CONTEXT = NoContext
    /\ self = NoWrapper
    /\ description = NoBuffers
    /\ textures = {}
    /\ last = Idle(NotConstructed)
    /\ callers = <<>>
    /\ lock = Unlocked

\* lines 179-193 of new(), for one template and one set of tokens
Compose ==
    /\ last.op = "idle"
    /\ \E order \in TemplateOrders, sep \in {";", "", " ;"}, ocl_names \in OclNames,
          distortion \in DistortionFunctions, digital_lens \in DigitalLenses,
          bpp \in {4, 16} :
        last' = [op |-> "compose", order |-> order, sep |-> sep, ocl_names |-> ocl_names,
                 distortion |-> distortion, digital_lens |-> digital_lens,
                 params |-> KernelParams(4, 4, 16, bpp),
                 kernel |-> ComposeKernel(Template(order, sep), ocl_names, distortion,
                                          digital_lens, KernelParams(4, 4, 16, bpp))]
    /\ UNCHANGED <<platforms, CONTEXT, self, description, textures, callers, lock>>

NextKernel == Compose \/ Continue

SpecKernel == InitKernel /\ [][NextKernel]_vars

(***************************************************************************)
(* Properties of SpecKernel.                                               *)
(***************************************************************************)
IsCompose == last.op = "compose"

\* the case of the claim: the uchar4 tokens, 4 bytes per pixel, interpolation 1,
\* no digital lens
ClaimedTokens ==
    /\ last.ocl_names = <<"uchar4", "convert_uchar4", "float4", "convert_float4">>
    /\ last.params.bytes_per_pixel = 4 /\ last.params.interpolation = 1
    /\ last.digital_lens.tag = "None"

\* the token of each placeholder: the functions text, the float conversion, the
\* float type, the pixel conversion, the pixel type, the two numbers
OwnToken ==
    <<last.distortion \o (IF last.digital_lens.tag = "Some" THEN last.digital_lens.value
                          ELSE default_digital_lens),
      last.ocl_names[4], last.ocl_names[3], last.ocl_names[2], last.ocl_names[1],
      ToString(last.params.bytes_per_pixel), ToString(last.params.interpolation)>>

NoneRemains == \A k \in 1..Len(Placeholders) : ~Contains(last.kernel, Placeholders[k])

\* the template with every placeholder replaced by its own token (the functions
\* text may take the place of a ';' that follows its placeholder)
EachByItsOwn ==
    last.kernel = Pieces(last.order,
                         [k \in 1..Len(Placeholders) |->
                            IF k = 1 /\ last.sep = ";" THEN OwnToken[k]
                            ELSE OwnToken[k] \o last.sep], 1)

\* C14 as stated: for a template holding each of the seven placeholders once, the
\* composed source holds none of them and each was replaced by its own token.
C14_NoPlaceholderRemains ==
    IsCompose /\ ClaimedTokens => NoneRemains /\ EachByItsOwn

\* C14 amended: the placeholder of the lens functions is "LENS_MODEL_FUNCTIONS;",
\* semicolon included.  When the template's LENS_MODEL_FUNCTIONS is directly
\* followed by ';', none of the seven placeholders remains, the lens functions
\* stand in place of "LENS_MODEL_FUNCTIONS;" and each other placeholder is
\* replaced by its own token (DATA_CONVERTF and DATA_TYPEF by the float tokens);
\* otherwise LENS_MODEL_FUNCTIONS stays in the source and the other six are
\* replaced all the same.
C14_ComposedSource ==
    IsCompose =>
        /\ last.kernel =
              Pieces(last.order,
                     [k \in 1..Len(Placeholders) |->
                        IF k > 1 THEN OwnToken[k] \o last.sep
                        ELSE IF last.sep = ";" THEN OwnToken[1]
                        ELSE Placeholders[1] \o last.sep], 1)
        /\ \A k \in 2..Len(Placeholders) : ~Contains(last.kernel, Placeholders[k])
        /\ Contains(last.kernel, Placeholders[1]) <=> last.sep # ";"

\* the claim's tokens on a template whose DATA_TYPE comes before DATA_TYPEF
C14_Witness ==
    /\ IsCompose /\ ClaimedTokens /\ last.sep = ";"
    /\ last.order = <<7, 6, 5, 4, 3, 2, 1>>
    /\ NoneRemains
    /\ Contains(last.kernel, "(convert_float4;)") /\ Contains(last.kernel, "(uchar4;)")

BuiltForQueueOrGl ==
    IsNew /\ last.result.ok /\ last.buffers.buffers.kind \in {"OpenCL", "OpenGL"}

\* C16 as stated: for the external-queue and the GL variant, with input_size and
\* output_size read as (row_bytes, height, depth_or_planes), the source buffer has
\* length input row_bytes x input height (first field x second field) and the
\* destination buffer output row_bytes x output height.
C16_LenIsFirstTimesSecond ==
    BuiltForQueueOrGl =>
        /\ last.result.value.src.len = last.buffers.input_size[1] * last.buffers.input_size[2]
        /\ last.result.value.dst.len = last.buffers.output_size[1] * last.buffers.output_size[2]

\* C16 amended: the size tuples are (width, height, row stride in bytes), as they
\* are handed to the image descriptors; for the external-queue and the GL variant
\* the source buffer has length input height x input row bytes (second field x
\* third field) and the destination buffer output height x output row bytes.
C16_LenIsSecondTimesThird ==
    BuiltForQueueOrGl =>
        /\ last.result.value.src.len = last.buffers.input_size[2] * last.buffers.input_size[3]
        /\ last.result.value.dst.len = last.buffers.output_size[2] * last.buffers.output_size[3]

\* a GL wrapper whose output rows are longer than its input rows
C16_Witness ==
    /\ BuiltForQueueOrGl
    /\ last.buffers.buffers.kind = "OpenGL"
    /\ last.buffers.input_size = <<4, 4, 16>> /\ last.buffers.output_size = <<4, 4, 20>>
    /\ last.result.value.src.len = 64 /\ last.result.value.dst.len = 80

\* C19: when initialize_context fails (no qualifying device, a failing
\* platform or device query, a failing context build) the singleton is exactly
\* what it was before the call, whether it held a context or not; the same
\* goes for new() when its call of initialize_context fails.  The singleton is
\* replaced only on success.
C19_FailureLeavesContext ==
    /\ IsInitializeContext /\ ~last.result.ok => CONTEXT = last.before
    /\ IsNew /\ last.reached = "context" => ~last.result.ok /\ CONTEXT = last.before
    /\ IsInitializeContext /\ CONTEXT # last.before => last.result.ok

\* initialize_context has failed in a query of lines 168-169, after its context
\* was built, while a context was active
C19_Witness ==
    /\ IsInitializeContext /\ ~last.result.ok
    /\ last.buildOk /\ ~last.logInfo /\ last.selected # NoDevice
    /\ last.before.tag = "Some" /\ CONTEXT.tag = "Some"

\* the checks of lines 308-317 and 320: the matrices do not fit their buffer, an
\* image does not have the bytes of its buffer, or the overlay is not as long
\* as the drawing buffer
SkippedBeforeUpload ==
    \/ last.before.buf_matrices.len < 9 * last.itm.matrices
    \/ /\ last.before.image_src.tag = "Some"
       /\ pixel_count(last.before.image_src) * last.itm.kernel_params.bytes_per_pixel
              # last.before.src.len
    \/ /\ last.before.image_dst.tag = "Some"
       /\ pixel_count(last.before.image_dst) * last.itm.kernel_params.bytes_per_pixel
              # last.before.dst.len
    \/ last.drawing_len # 0 /\ last.drawing_len # last.before.buf_drawing.len

\* the checks of lines 325-326: a slice of a Cpu source is not as long as its buffer
SkippedForSlices ==
    /\ SourceKind = "Cpu"
    /\ \/ last.buffers.buffers.input.len # last.before.src.len
       \/ last.buffers.buffers.output.len # last.before.dst.len

\* C20 as stated: whenever the dispatch skips a frame for a size mismatch
\* (matrices, source image, destination image, overlay, Cpu input or Cpu
\* output) it returns success, has written to no device buffer and has not
\* enqueued the kernel.
C20_SkipWritesNothing ==
    IsDispatch /\ (SkippedBeforeUpload \/ SkippedForSlices) =>
        /\ last.calls = <<>>
        /\ last.result = Ok(<<>>)

\* C20 amended: a frame skipped for its matrices, an image or the overlay
\* returns success with no device call at all.  A frame skipped for the slices
\* of a Cpu source has written nothing to the source, parameter and matrix
\* buffers and has not enqueued the kernel or read the destination back, but a
\* non-empty overlay has been uploaded before; it returns success unless that
\* upload failed.
C20_SkipWritesAtMostOverlay ==
    /\ IsDispatch /\ SkippedBeforeUpload =>
        /\ last.calls = <<>>
        /\ last.result = Ok(<<>>)
        /\ self = last.before
    /\ IsDispatch /\ SkippedForSlices /\ ~SkippedBeforeUpload =>
        /\ \A i \in 1..Len(last.calls) : last.calls[i].call = "write_drawing"
        /\ Called("write_drawing") <=> last.drawing_len # 0
        /\ last.result.ok <=> ~CalledErr("write_drawing")
        /\ self.src = last.before.src /\ self.dst = last.before.dst
        /\ last.output = last.buffers.buffers.output

\* only the input slice is off: the overlay is uploaded, then the frame is skipped
C20_Witness ==
    /\ IsDispatch /\ ~SkippedBeforeUpload
    /\ last.buffers.buffers.input.len # last.before.src.len
    /\ last.buffers.buffers.output.len = last.before.dst.len
    /\ last.calls = <<[call |-> "write_drawing", ok |-> TRUE]>>
    /\ last.result.ok

\* C21: initialize_context, by keyword preference or by the first-GPU fallback,
\* never installs a context for a device whose name contains a substring of
\* EXCLUSIONS: the device it selects is one that list_devices reports.
C21_NeverInstallsDenylisted ==
    IsInitializeContext /\ last.result.ok =>
        /\ CONTEXT.device = last.selected
        /\ ~Excluded(unwrap_or_default(DeviceName(platforms, last.selected)))
        /\ \E i \in 1..Len(ListedDevices) : ListedDevices[i].device = last.selected

(***************************************************************************)
(* Callers on several threads.  The operations on CONTEXT are cut where    *)
(* they take the lock: a step is what a thread does between two            *)
(* points at which another thread can get hold of CONTEXT.  Device calls   *)
(* return.                                                                 *)
(***************************************************************************)
\* the number of threads
NumCallers == 2

Callers == 1..NumCallers

\* the buffer source each thread works with: the checksums of neighbours differ
SourceOf(t) ==
    IF t % 2 = 1 THEN BufferDescription(Cpu(64, 64), <<4, 4, 16>>, <<4, 4, 16>>)
    ELSE BufferDescription(OpenGL(1, 1, 2), <<4, 4, 16>>, <<4, 4, 16>>)

Done(op, result) == [pc |-> "done", op |-> op, result |-> result]

At(t, pc) == callers[t].pc = pc
Goto(t, c) == callers' = [callers EXCEPT ![t] = c]

\* lock.queue: the threads that have called CONTEXT.read() or CONTEXT.write() and
\* not got the lock yet.  The lock is task-fair: it goes to the thread that has
\* waited longest, readers behind a waiting writer included.
\* CONTEXT.read() returns: no writer holds the lock
AcquireRead(t) ==
    /\ lock.queue # <<>> /\ Head(lock.queue) = t
    /\ lock.writer = 0
    /\ lock' = [lock EXCEPT !.queue = Tail(@), !.readers = @ \cup {t}]

\* CONTEXT.write() returns: nobody holds the lock (a thread that holds a read
\* guard itself waits for ever)
WriteGranted(t) ==
    /\ lock.queue # <<>> /\ Head(lock.queue) = t
    /\ lock.writer = 0 /\ lock.readers = {}

ReleaseRead(t) == lock' = [lock EXCEPT !.readers = @ \ {t}]

\* the thread calls CONTEXT.read() (lines 83, 197) or CONTEXT.write() (lines 106,
\* 171, 205) and is queued for the lock
Request(t) ==
    /\ \/ At(t, "new_read") \/ At(t, "info_read")
       \/ At(t, "init_install") \/ At(t, "new_write") \/ At(t, "set_install")
    /\ \A i \in 1..Len(lock.queue) : lock.queue[i] # t
    /\ lock' = [lock EXCEPT !.queue = Append(@, t)]
    /\ UNCHANGED <<platforms, CONTEXT, self, description, textures, last, callers>>

InitThreads ==
    /\ platforms = <<AmdPlatform>>
    /\ CONTEXT = NoContext
    /\ self = NoWrapper
    /\ description = NoBuffers
    /\ textures = {}
    /\ last = Idle(NotConstructed)
    /\ callers = [t \in Callers |-> [pc |-> "idle"]]
    /\ lock = Unlocked

\* a thread calls OclWrapper::new with its source
CallNew(t) ==
    /\ At(t, "idle")
    /\ Goto(t, [pc |-> "new_read", op |-> "new", buffers |-> SourceOf(t)])
    /\ UNCHANGED <<platforms, CONTEXT, self, description, textures, last, lock>>

\* line 197: let ctx = CONTEXT.read() returns
NewRead(t) ==
    /\ At(t, "new_read")
    /\ AcquireRead(t)
    /\ Goto(t, [callers[t] EXCEPT !.pc = "new_check"])
    /\ UNCHANGED <<platforms, CONTEXT, self, description, textures, last>>

\* lines 198-204 without drop(ctx): the guard lives to the end of the block
NewCheck_KeepsGuard(t) ==
    /\ At(t, "new_check")
    /\ IF NeedsInitialize(CONTEXT, callers[t].buffers)
       THEN /\ Goto(t, [callers[t] EXCEPT !.pc = "init_select"])
            /\ UNCHANGED lock
       ELSE /\ Goto(t, [callers[t] EXCEPT !.pc = "new_write"])
            /\ ReleaseRead(t)
    /\ UNCHANGED <<platforms, CONTEXT, self, description, textures, last>>

\* lines 198-204: the check under the read guard; the guard is dropped at line
\* 200 before initialize_context is called, or at the end of the block
NewCheck(t) ==
    /\ At(t, "new_check")
    /\ IF NeedsInitialize(CONTEXT, callers[t].buffers)
       THEN Goto(t, [callers[t] EXCEPT !.pc = "init_select"])
       ELSE Goto(t, [callers[t] EXCEPT !.pc = "new_write"])
    /\ ReleaseRead(t)
    /\ UNCHANGED <<platforms, CONTEXT, self, description, textures, last>>

\* a thread calls initialize_context(Some(buffers)) itself
CallInitializeContext(t) ==
    /\ At(t, "idle")
    /\ Goto(t, [pc |-> "init_select", op |-> "initialize_context", buffers |-> SourceOf(t)])
    /\ UNCHANGED <<platforms, CONTEXT, self, description, textures, last, lock>>

\* lines 117-169: selection, queries and context build, without the lock; an
\* error returns from initialize_context and, through `?`, from new
InitSelect(t) ==
    /\ At(t, "init_select")
    /\ \E buildOk \in BOOLEAN :
        LET r == initialize_context(SomeBuffers(callers[t].buffers), FALSE, buildOk)
        IN  IF r.result.ok
            THEN Goto(t, [callers[t] EXCEPT !.pc = "init_install"])
            ELSE Goto(t, Done(callers[t].op, r.result))
    /\ UNCHANGED <<platforms, CONTEXT, self, description, textures, last, lock>>

\* line 171: *CONTEXT.write() = Some(CtxWrapper { .. }); the guard is a temporary
\* of the statement
InitInstall(t) ==
    /\ At(t, "init_install")
    /\ WriteGranted(t)
    /\ lock' = [lock EXCEPT !.queue = Tail(@)]
    /\ LET r == initialize_context(SomeBuffers(callers[t].buffers), FALSE, TRUE)
       IN  /\ CONTEXT' = r.context
           /\ IF callers[t].op = "new"
              THEN Goto(t, [callers[t] EXCEPT !.pc = "new_write"])
              ELSE Goto(t, Done(callers[t].op, r.result))
    /\ UNCHANGED <<platforms, self, description, textures, last>>

\* line 205: let mut lock = CONTEXT.write() returns
NewWrite(t) ==
    /\ At(t, "new_write")
    /\ WriteGranted(t)
    /\ lock' = [lock EXCEPT !.queue = Tail(@), !.writer = t]
    /\ Goto(t, [callers[t] EXCEPT !.pc = "new_construct"])
    /\ UNCHANGED <<platforms, CONTEXT, self, description, textures, last>>

\* lines 206-302 under the write guard: queue, buffers, program and kernel are
\* built from the context found in CONTEXT; built_from: its surface_checksum
NewConstruct(t) ==
    /\ At(t, "new_construct")
    /\ \E failAt \in {"none", "kernel"} :
        LET r == Construct(CONTEXT, KernelParams(4, 4, 16, 4), callers[t].buffers, 0, failAt)
        IN  /\ CONTEXT' = r.context
            /\ Goto(t, Done("new", r.result)
                       @@ [buffers |-> callers[t].buffers,
                           built_from |-> IF CONTEXT.tag = "Some"
                                          THEN CONTEXT.surface_checksum ELSE 0 - 1])
    /\ lock' = [lock EXCEPT !.writer = 0]
    /\ UNCHANGED <<platforms, self, description, textures, last>>

\* a thread calls set_device(0, buffers)
CallSetDevice(t) ==
    /\ At(t, "idle")
    /\ Goto(t, [pc |-> "set_select", op |-> "set_device", buffers |-> SourceOf(t)])
    /\ UNCHANGED <<platforms, CONTEXT, self, description, textures, last, lock>>

\* lines 92-104: enumeration and context build, without the lock
SetSelect(t) ==
    /\ At(t, "set_select")
    /\ \E buildOk \in BOOLEAN :
        LET r == set_device(0, callers[t].buffers, FALSE, buildOk)
        IN  IF r.result.ok
            THEN Goto(t, [callers[t] EXCEPT !.pc = "set_install"])
            ELSE Goto(t, Done("set_device", r.result))
    /\ UNCHANGED <<platforms, CONTEXT, self, description, textures, last, lock>>

\* line 106: *CONTEXT.write() = Some(CtxWrapper { .. })
SetInstall(t) ==
    /\ At(t, "set_install")
    /\ WriteGranted(t)
    /\ lock' = [lock EXCEPT !.queue = Tail(@)]
    /\ LET r == set_device(0, callers[t].buffers, FALSE, TRUE)
       IN  /\ CONTEXT' = r.context
           /\ Goto(t, Done("set_device", r.result))
    /\ UNCHANGED <<platforms, self, description, textures, last>>

\* a thread calls get_info()
CallGetInfo(t) ==
    /\ At(t, "idle")
    /\ Goto(t, [pc |-> "info_read", op |-> "get_info"])
    /\ UNCHANGED <<platforms, CONTEXT, self, description, textures, last, lock>>

\* line 83: let lock = CONTEXT.read() returns
InfoRead(t) ==
    /\ At(t, "info_read")
    /\ AcquireRead(t)
    /\ Goto(t, [callers[t] EXCEPT !.pc = "info_name"])
    /\ UNCHANGED <<platforms, CONTEXT, self, description, textures, last>>

\* lines 84-89: the name is queried under the guard, which drops on return
InfoName(t) ==
    /\ At(t, "info_name")
    /\ Goto(t, Done("get_info", get_info))
    /\ ReleaseRead(t)
    /\ UNCHANGED <<platforms, CONTEXT, self, description, textures, last>>

\* the thread takes the result and is free for its next call
Return(t) ==
    /\ At(t, "done")
    /\ Goto(t, [pc |-> "idle"])
    /\ UNCHANGED <<platforms, CONTEXT, self, description, textures, last, lock>>

\* the steps of a call once it is made
Proceed(t) ==
    \/ Request(t)
    \/ NewRead(t) \/ NewCheck(t) \/ InitSelect(t) \/ InitInstall(t) \/ NewWrite(t)
    \/ NewConstruct(t) \/ SetSelect(t) \/ SetInstall(t) \/ InfoRead(t) \/ InfoName(t)

NextThreads ==
    \E t \in Callers :
        \/ CallNew(t) \/ CallInitializeContext(t) \/ CallSetDevice(t) \/ CallGetInfo(t)
        \/ Proceed(t) \/ Return(t)

\* the threads do nothing but construct wrappers
NextConstructors ==
    \E t \in Callers :
        \/ CallNew(t) \/ Request(t) \/ NewRead(t) \/ NewCheck(t) \/ InitSelect(t)
        \/ InitInstall(t) \/ NewWrite(t) \/ NewConstruct(t) \/ Return(t)

SpecConstructors == InitThreads /\ [][NextConstructors]_vars

\* a thread in a call gets to run: the step it can take is taken in the end
SpecThreadsFair ==
    /\ InitThreads /\ [][NextThreads]_vars
    /\ \A t \in Callers : WF_vars(Proceed(t))

(***************************************************************************)
(* Properties of SpecConstructors and SpecThreadsFair.                     *)
(***************************************************************************)
\* C17 as stated: when two callers construct concurrently with sources of
\* different checksums, every wrapper returned successfully was built (queue,
\* buffers, program) from a context whose surface_checksum is the checksum of
\* that caller's own source.
C17_BuiltFromOwnContext ==
    \A t \in Callers :
        (At(t, "done") /\ callers[t].op = "new" /\ callers[t].result.ok)
            => callers[t].built_from = get_checksum(callers[t].buffers.buffers)

InCall(t) == ~At(t, "idle") /\ ~At(t, "done")

\* the thread is about to ask for the exclusive lock
RequestsWrite(t) == At(t, "init_install") \/ At(t, "new_write") \/ At(t, "set_install")

\* no thread asks for the write lock while it holds a read guard, and a thread
\* holds a guard only inside the section of the code that took it
LockDiscipline ==
    \A t \in Callers :
        /\ RequestsWrite(t) => t \notin lock.readers /\ lock.writer # t
        /\ t \in lock.readers <=> (At(t, "new_check") \/ At(t, "info_name"))
        /\ lock.writer = t <=> At(t, "new_construct")

\* some thread in a call can take its next step
NoDeadlock == (\E t \in Callers : InCall(t)) => \E t \in Callers : ENABLED Proceed(t)

\* C18: no operation asks for the exclusive lock on CONTEXT while the same
\* thread still holds a shared lock on it (new drops its read guard on both
\* branches before initialize_context and before its own write acquisition), so
\* with concurrent callers of new, set_device, initialize_context and get_info
\* there is no deadlock and every call returns in the end.
C18_NoUpgradeNoDeadlock ==
    /\ [](LockDiscipline /\ NoDeadlock)
    /\ \A t \in Callers : InCall(t) ~> At(t, "done")

\* a thread in new() waits for the write lock of line 171 while another thread
\* holds the read guard of line 197
C18_Witness ==
    /\ \E t, u \in Callers :
          /\ At(t, "init_install") /\ callers[t].op = "new"
          /\ At(u, "new_check") /\ lock.readers = {u}
          /\ lock.queue = <<t>>

====
